---- MODULE Spec2Model ----
(***************************************************************************)
(* Query Relay Service: the three variants of the legal-analysis API       *)
(*   "final" : src/legal-agent-api-final.py (Anthropic client, canned      *)
(*             setup-required / service-error responses)                   *)
(*   "v2"    : src/legal-agent-api-v2.py    (Anthropic client, HTTP 500)   *)
(*   "sdk"   : src/legal-agent-api.py       (Claude Code SDK, HTTP 500)    *)
(*                                                                         *)
(* Strings are sequences of tokens; a token stands for a fixed piece of    *)
(* text of the source (a template fragment) or for one unit of caller or   *)
(* provider supplied text.  Python's None is the empty sequence <<>> of an *)
(* optional, a present value v is <<v>>.                                   *)
(* uuid.uuid4() is modelled as a generator of fresh identifiers.           *)
(* The SDK variant imports asynccontextmanager from `contextual` (line 12  *)
(* of its file); the model takes the service as started, i.e. that import  *)
(* as resolved.                                                            *)
(***************************************************************************)
EXTENDS Integers, Sequences, FiniteSets, TLC

VARIABLES
    variant,        \* which of the three services this process runs
    lib_available,  \* ANTHROPIC_AVAILABLE / CLAUDE_SDK_AVAILABLE (import time)
    key_at_start,   \* was ANTHROPIC_API_KEY set when the agent was constructed
    env_key,        \* is ANTHROPIC_API_KEY set in the environment now
    env_oauth,      \* is CLAUDE_CODE_USE_OAUTH 'true' in the environment
    agent,          \* legal_agent: [query_count, has_client]
    next_uuid,      \* source of fresh uuid4 values
    handled,        \* requests received by this process so far
    returned,       \* envelopes returned by this process so far
    issued,         \* query ids of the envelopes returned by this process
    last,           \* record of the most recent request and its outcome
    first_issue,    \* the preceding answer, kept when `last` re-issued the
                    \* same request and the preceding answer was given
                    \* without the provider or with ANTHROPIC_API_KEY unset
    tasks           \* the handlers running concurrently on the event loop

vars == <<variant, lib_available, key_at_start, env_key, env_oauth, agent, next_uuid,
          handled, returned, issued, last, first_issue, tasks>>

(* ------------------------------ bounds --------------------------------- *)
MaxRequests == 2
MaxIncrements == 2
MaxStreamLen == 3
MaxTasks == 2

(* ------------------------------ strings -------------------------------- *)
None == <<>>
Some(v) == <<v>>
IsNone(o) == o = <<>>
Val(o) == o[1]

EmptyStr == <<>>

RECURSIVE Concat(_)
Concat(ss) == IF ss = <<>> THEN <<>> ELSE Head(ss) \o Concat(Tail(ss))

StartsWith(s, p) ==
    /\ Len(p) <= Len(s)
    /\ SubSeq(s, 1, Len(p)) = p

EndsWith(s, p) ==
    /\ Len(p) <= Len(s)
    /\ SubSeq(s, Len(s) - Len(p) + 1, Len(s)) = p

Contains(s, p) ==
    \E i \in 0..(Len(s) - Len(p)) : SubSeq(s, i + 1, i + Len(p)) = p

(* the characters str.strip() removes, those str.isspace() accepts: the   *)
(* space, \t, \n, \r, \f, the vertical tab U+000B, the separators        *)
(* U+001C..U+001F, NEL U+0085, the no-break space U+00A0 and the ogham    *)
(* space U+1680, each written as the character itself. The remaining      *)
(* Unicode spaces (U+2000..U+200A, U+2028, U+2029, U+202F, U+205F,         *)
(* U+3000) are removed by str.strip() as well but cannot be written in a  *)
(* string of this language, so no message of the model carries them.      *)
VerticalTab == ""

Whitespace ==
    { " ", "\t", "\n", "\r", "\f", VerticalTab,
      "", "", "", "",
      "", " ", " " }

IsSpace(tok) == tok \in Whitespace

RECURSIVE LStrip(_)
LStrip(s) == IF s # <<>> /\ IsSpace(Head(s)) THEN LStrip(Tail(s)) ELSE s

RECURSIVE RStrip(_)
RStrip(s) ==
    IF s # <<>> /\ IsSpace(s[Len(s)]) THEN RStrip(SubSeq(s, 1, Len(s) - 1)) ELSE s

Strip(s) == RStrip(LStrip(s))

(* Python truthiness of Optional[str] and Optional[int] *)
TruthyStr(o) == ~IsNone(o) /\ Val(o) # EmptyStr
TruthyInt(o) == ~IsNone(o) /\ Val(o) # 0

(* `o or d` *)
OrStr(o, d) == IF TruthyStr(o) THEN Val(o) ELSE d
OrInt(o, d) == IF TruthyInt(o) THEN Val(o) ELSE d

(* --------------------------- request bodies ---------------------------- *)
(* A JSON body field is missing, null or a value.                          *)
Missing(dummy) == [tag |-> "missing", val |-> dummy]
Null(dummy)    == [tag |-> "null",    val |-> dummy]
Given(v)       == [tag |-> "val",     val |-> v]

Queries  == { EmptyStr, <<"force", "majeure">> }
Contexts == { EmptyStr, <<"SaaS">> }
Turns    == { 0, 1, 3 }

RawBodies ==
    [ query     : {Missing(EmptyStr)} \cup {Given(q) : q \in Queries},
      context   : {Missing(EmptyStr), Null(EmptyStr)} \cup {Given(c) : c \in Contexts},
      max_turns : {Missing(0), Null(0)} \cup {Given(n) : n \in Turns} ]

DefaultMaxTurns == 2

NoRequest == [query |-> EmptyStr, context |-> None, max_turns |-> None]

(* pydantic validation of the body against LegalQueryRequest:              *)
(*   query: str (required), context: Optional[str] = None,                 *)
(*   max_turns: Optional[int] = 2                                          *)
LegalQueryRequest(raw) ==
    IF raw.query.tag # "val"
    THEN [ok |-> FALSE, req |-> NoRequest]
    ELSE [ok  |-> TRUE,
          req |-> [ query     |-> raw.query.val,
                    context   |-> IF raw.context.tag = "val"
                                  THEN Some(raw.context.val) ELSE None,
                    max_turns |-> CASE raw.max_turns.tag = "missing" -> Some(DefaultMaxTurns)
                                    [] raw.max_turns.tag = "null"    -> None
                                    [] raw.max_turns.tag = "val"     -> Some(raw.max_turns.val) ] ]

(* ------------------------- specialised wrappers ------------------------ *)
ContractLabel ==
    IF variant = "final"
    THEN <<"CONTRACT REVIEW", " AND ANALYSIS", ": ">>
    ELSE <<"CONTRACT REVIEW", ": ">>

RiskLabel == <<"LEGAL RISK ASSESSMENT", ": ">>

ContractContextPrefix == <<"Contract Analysis Context: ">>
RiskContextPrefix     == <<"Risk Analysis Context: ">>

ContractDefaultContext ==
    IF variant = "final"
    THEN <<"General contract review", " - please identify key legal issues, risks, and recommendations">>
    ELSE <<"General contract review">>

RiskDefaultContext ==
    IF variant = "final"
    THEN <<"Comprehensive legal risk evaluation", " - identify potential liabilities, compliance issues, and mitigation strategies">>
    ELSE <<"General risk assessment">>

ContractDefaultTurns == 3
RiskDefaultTurns == 2

ContractQueryLabelLast(req) == req.query \o ContractLabel
ContractQuery(req)   == ContractLabel \o req.query
ContractContextAlwaysDefault(req) == ContractContextPrefix \o ContractDefaultContext
ContractContext(req) == ContractContextPrefix \o OrStr(req.context, ContractDefaultContext)
ContractTurns(req)   == OrInt(req.max_turns, ContractDefaultTurns)

RiskQuery(req)   == RiskLabel \o req.query
RiskContext(req) == RiskContextPrefix \o OrStr(req.context, RiskDefaultContext)
RiskTurns(req)   == OrInt(req.max_turns, RiskDefaultTurns)

(* enhanced_request of contract_review / risk_assessment *)
contract_review(req) ==
    [ query     |-> ContractQuery(req),
      context   |-> Some(ContractContext(req)),
      max_turns |-> Some(ContractTurns(req)) ]

risk_assessment(req) ==
    [ query     |-> RiskQuery(req),
      context   |-> Some(RiskContext(req)),
      max_turns |-> Some(RiskTurns(req)) ]

Endpoints == {"query", "contract-review", "risk-assessment"}

(* the request an endpoint hands to legal_agent.process_legal_query *)
Forwarded(endpoint, req) ==
    CASE endpoint = "query"           -> req
      [] endpoint = "contract-review" -> contract_review(req)
      [] endpoint = "risk-assessment" -> risk_assessment(req)

(* ------------------------------ provider ------------------------------- *)
(* What the provider does when it is invoked: it delivers `blocks` (the    *)
(* content blocks of the one message of the Anthropic client, or the       *)
(* successive messages of the SDK's receive_response()) and, when `failed`,*)
(* raises `error` after delivering them (the Anthropic client delivers     *)
(* nothing when it raises).  A block may lack text/content altogether.     *)
NoText    == [has_text |-> FALSE, text |-> EmptyStr]
Text(s)   == [has_text |-> TRUE,  text |-> s]
BlockKinds == { NoText, Text(EmptyStr), Text(<<" ">>), Text(<<"analysis">>) }
MessageKinds == { NoText, Text(<<"\n">>), Text(<<"analysis">>) }

ProviderError == <<"Connection error.">>
IndexError    == <<"list index out of range">>
AttributeError == <<"object has no attribute 'text'">>

SeqsUpTo(S, n) == UNION { [1..k -> S] : k \in 0..n }

Outcomes ==
    IF variant = "sdk"
    THEN [blocks : SeqsUpTo(MessageKinds, MaxIncrements), failed : BOOLEAN]
    ELSE [blocks : SeqsUpTo(BlockKinds, 1), failed : {FALSE}]
         \cup {[blocks |-> <<>>, failed |-> TRUE]}

(* the streams the sdk's query endpoints are answered with: nothing, one   *)
(* message, whitespace or a message without content before it, and a       *)
(* failure at once or after the first message                              *)
SdkStreams ==
    { [blocks |-> <<>>, failed |-> FALSE],
      [blocks |-> <<>>, failed |-> TRUE],
      [blocks |-> <<Text(<<"analysis">>)>>, failed |-> FALSE],
      [blocks |-> <<Text(<<"analysis">>)>>, failed |-> TRUE],
      [blocks |-> <<Text(<<"\n">>), Text(<<"analysis">>)>>, failed |-> FALSE],
      [blocks |-> <<NoText, Text(<<"analysis">>)>>, failed |-> FALSE] }

(* self.client.messages.create(...) followed by message.content[0].text    *)
MessagesCreate(out) ==
    CASE out.failed                -> [raised |-> TRUE,  error |-> ProviderError, text |-> EmptyStr]
      [] ~out.failed /\ out.blocks = <<>>
                                   -> [raised |-> TRUE,  error |-> IndexError, text |-> EmptyStr]
      [] ~out.failed /\ out.blocks # <<>> /\ ~out.blocks[1].has_text
                                   -> [raised |-> TRUE,  error |-> AttributeError, text |-> EmptyStr]
      [] OTHER                     -> [raised |-> FALSE, error |-> EmptyStr, text |-> out.blocks[1].text]

(* hasattr(message, "content") and message.content *)
IsContentBearing(m) == m.has_text /\ m.text # EmptyStr

LoopBodyCountingAll(m, response_content, turn_count, max_turns) ==
    [ response_content |-> IF IsContentBearing(m) THEN response_content \o m.text
                                                  ELSE response_content,
      turn_count |-> turn_count + 1,
      stop |-> turn_count + 1 >= max_turns ]

(* the body of `async for message in client.receive_response()` run on    *)
(* message m: what it leaves in response_content and turn_count, and       *)
(* whether it leaves the loop by `break`                                   *)
LoopBody(m, response_content, turn_count, max_turns) ==
    IF IsContentBearing(m)
    THEN [ response_content |-> response_content \o m.text,
           turn_count |-> turn_count + 1,
           stop |-> turn_count + 1 >= max_turns ]
    ELSE [ response_content |-> response_content, turn_count |-> turn_count,
           stop |-> FALSE ]

(* ------------------------------ templates ------------------------------ *)
ContextLine(req) ==
    IF TruthyStr(req.context) THEN <<"**Context:** ">> \o Val(req.context) ELSE EmptyStr

SetupRequiredWithoutQuery(req) ==
    Concat(<< <<"Claude Legal Agent Setup Required", "**Your Query:** ">>,
              <<"\n">>, ContextLine(req),
              <<"Get your API key: https://console.anthropic.com/">> >>)

SetupRequired(req) ==
    Concat(<< <<"Claude Legal Agent Setup Required", "**Your Query:** ">>,
              req.query, <<"\n">>, ContextLine(req),
              <<"Get your API key: https://console.anthropic.com/">> >>)

ServiceErrorWithoutMessage(e, req) ==
    Concat(<< <<"Legal Analysis Service Error",
                "An error occurred while processing your legal query: ">>,
              <<"\n\n", "**Your Query:** ">>, req.query, <<"\n">>,
              ContextLine(req), <<"Troubleshooting Steps">> >>)

ServiceError(e, req) ==
    Concat(<< <<"Legal Analysis Service Error",
                "An error occurred while processing your legal query: ">>,
              e, <<"\n\n", "**Your Query:** ">>, req.query, <<"\n">>,
              ContextLine(req), <<"Troubleshooting Steps">> >>)

BeingConfigured == <<"Legal analysis service is currently being configured. ">>

SdkDefaultResponse ==
    <<"Legal analysis completed successfully. Please check the detailed response.">>

LibraryMissingDetail ==
    IF variant = "sdk"
    THEN <<"Claude Code SDK not available. Please install claude-code-sdk package.">>
    ELSE <<"Anthropic API not available. Please install anthropic package.">>

AuthMissingDetail ==
    <<"Authentication not configured. Set ANTHROPIC_API_KEY environment variable.">>

AnalysisFailedDetail(e) == <<"Legal analysis failed: ">> \o e

(* --------------------- process_legal_query results --------------------- *)
(* a result: what the handler hands back (an envelope, or an HTTPException *)
(* that leaves it), how often it invoked the provider, the exception text *)
(* the provider call raised (None when it raised nothing), and the value  *)
(* of self.query_count afterwards                                         *)
EnvelopeStatusFromError(query_id, response, calls, raised) ==
    [ kind |-> "envelope", query_id |-> query_id,
      status |-> IF raised = None THEN "completed" ELSE "error",
      response |-> response, detail |-> EmptyStr, calls |-> calls,
      raised |-> raised, query_count |-> agent.query_count + 1 ]

Envelope(query_id, response, calls, raised) ==
    [ kind |-> "envelope", query_id |-> query_id, status |-> "completed",
      response |-> response, detail |-> EmptyStr, calls |-> calls,
      raised |-> raised, query_count |-> agent.query_count + 1 ]

HTTPExceptionCounted(detail, calls, raised) ==
    [ kind |-> "http500", query_id |-> 0, status |-> "", response |-> EmptyStr,
      detail |-> detail, calls |-> calls, raised |-> raised,
      query_count |-> agent.query_count + 1 ]

HTTPException(detail, calls, raised) ==
    [ kind |-> "http500", query_id |-> 0, status |-> "", response |-> EmptyStr,
      detail |-> detail, calls |-> calls, raised |-> raised,
      query_count |-> agent.query_count ]

(* self.available (final) and self.client (v2), as read by the handler:   *)
(* the value __init__ stored                                              *)
AvailableNow == env_key /\ lib_available
Available == agent.has_client

Client == agent.has_client

ProcessFinalRetrying(req, out, query_id) ==
    IF ~Available
    THEN Envelope(query_id, SetupRequired(req), 0, None)
    ELSE LET m == MessagesCreate(out) IN
         IF m.raised
         THEN Envelope(query_id, ServiceError(m.error, req), 2, Some(m.error))
         ELSE Envelope(query_id, m.text, 1, None)

(* ClaudeLegalAgent.process_legal_query, src/legal-agent-api-final.py *)
ProcessFinal(req, out, query_id) ==
    IF ~Available
    THEN Envelope(query_id, SetupRequired(req), 0, None)
    ELSE LET m == MessagesCreate(out) IN
         IF m.raised
         THEN Envelope(query_id, ServiceError(m.error, req), 1, Some(m.error))
         ELSE Envelope(query_id, m.text, 1, None)

(* LegalAgent.process_legal_query, src/legal-agent-api-v2.py *)
ProcessV2(req, out, query_id) ==
    IF ~lib_available
    THEN HTTPException(LibraryMissingDetail, 0, None)
    ELSE IF ~Client /\ ~env_key
    THEN HTTPException(AuthMissingDetail, 0, None)
    ELSE IF Client
    THEN LET m == MessagesCreate(out) IN
         IF m.raised
         THEN HTTPException(AnalysisFailedDetail(m.error), 1, Some(m.error))
         ELSE Envelope(query_id, m.text, 1, None)
    ELSE Envelope(query_id, BeingConfigured, 0, None)

SdkFallbackTurns == 2

(* if not response_content.strip(): response_content = "Legal analysis ..." *)
AfterLoop(response_content) ==
    IF Strip(response_content) = EmptyStr THEN SdkDefaultResponse ELSE response_content

(* process_legal_query of final and v2, which run to their return *)
process_legal_query(req, out, query_id) ==
    CASE variant = "final" -> ProcessFinal(req, out, query_id)
      [] variant = "v2"    -> ProcessV2(req, out, query_id)

(* ------------------------------- state --------------------------------- *)
Variants == {"final", "v2", "sdk"}

(* ClaudeLegalAgent.__init__ / LegalAgent.__init__: the client (final: the  *)
(* `available` flag, which is set together with the client) is built once,  *)
(* from the environment of that moment                                      *)
HasClientAtInit(key) ==
    CASE variant = "final" -> key /\ lib_available
      [] variant = "v2"    -> key
      [] variant = "sdk"   -> FALSE

LegalAgentInit(key) == [query_count |-> 0, has_client |-> HasClientAtInit(key)]

(* v2 calls anthropic.Anthropic at import time whenever the key is set: a   *)
(* process without the library and with the key does not start.  The sdk   *)
(* file imports asynccontextmanager from a module named `contextual`: it   *)
(* starts only where such a module can be imported                         *)
CanStart(v, lib, key, contextual) ==
    CASE v = "v2"  -> ~(~lib /\ key)
      [] v = "sdk" -> contextual
      [] OTHER     -> TRUE

NoScript == [blocks |-> <<>>, failed |-> FALSE]

(* a JSON value of a response body, and Python's truth value of it *)
JsonBool(b) == [json |-> "bool", bool |-> b, str |-> EmptyStr]
JsonStr(s)  == [json |-> "str", bool |-> FALSE, str |-> s]
Truthy(v)   == IF v.json = "bool" THEN v.bool ELSE v.str # EmptyStr

NoExchange ==
    [ phase |-> "none", endpoint |-> "query",
      raw |-> [query |-> Missing(EmptyStr), context |-> Missing(EmptyStr),
               max_turns |-> Missing(0)],
      fwd |-> NoRequest, calls |-> 0, raised |-> None,
      query_id |-> 0, status |-> "", response |-> EmptyStr, detail |-> EmptyStr,
      key_at_request |-> FALSE, count_before |-> 0,
      script |-> NoScript, read |-> 0, turn_count |-> 0, frames |-> <<>>,
      probe |-> "none",
      queries_processed |-> 0, configured |-> JsonBool(FALSE) ]

NoFirstIssue ==
    [ present |-> FALSE, phase |-> "none", calls |-> 0, key_at_request |-> FALSE,
      query_id |-> 0, response |-> EmptyStr ]

(* the requests being handled concurrently on the event loop, each one a  *)
(* task that is not started, suspended at an await, or returned            *)
Tasks == 1..MaxTasks

IdleTask ==
    [ pc |-> "idle", request_max_turns |-> None, max_turns |-> 0, script |-> NoScript,
      read |-> 0, turn_count |-> 0, raised |-> FALSE, count_at_start |-> 0,
      result |-> "none", overlapped |-> FALSE ]

Init ==
    /\ variant \in Variants
    /\ lib_available \in BOOLEAN
    /\ key_at_start \in BOOLEAN
    /\ \E contextual \in BOOLEAN :
          CanStart(variant, lib_available, key_at_start, contextual)
    /\ env_key = key_at_start
    /\ env_oauth \in (IF variant = "sdk" THEN BOOLEAN ELSE {FALSE})
    /\ agent = LegalAgentInit(key_at_start)
    /\ next_uuid = 1
    /\ handled = 0
    /\ returned = 0
    /\ issued = {}
    /\ last = NoExchange
    /\ first_issue = NoFirstIssue
    /\ tasks = [t \in Tasks |-> IdleTask]

(* query_id = str(uuid.uuid4()): a value no earlier call returned *)
uuid4Reused == IF issued = {} THEN next_uuid ELSE CHOOSE i \in issued : TRUE
uuid4 == next_uuid

(* the handler of the last request is suspended at an await of the sdk    *)
(* file: in __aenter__, in client.query, in __anext__ or in __aexit__      *)
Awaiting == last.phase \in {"aenter", "query", "anext", "aexit"}

(* a request has been received and its answer is not yet complete *)
Busy == last.phase = "received" \/ Awaiting

(* the suspended handler is resumed: what a GET answered in between left  *)
(* in the record is dropped                                                *)
Resumed ==
    [last EXCEPT !.probe = "none", !.queries_processed = 0,
                 !.configured = JsonBool(FALSE)]

(* a request body arrives at an endpoint and is validated by the framework *)
(* against LegalQueryRequest before the endpoint function runs             *)
Post(endpoint, raw) ==
    /\ handled < MaxRequests
    /\ ~Busy
    /\ handled' = handled + 1
    /\ last' = [NoExchange EXCEPT
                  !.phase = IF LegalQueryRequest(raw).ok THEN "received" ELSE "rejected",
                  !.endpoint = endpoint,
                  !.raw = raw,
                  !.key_at_request = env_key,
                  !.count_before = agent.query_count]
    /\ first_issue' =
         IF /\ last.phase \in {"envelope", "http500"}
            /\ (last.calls = 0 \/ ~last.key_at_request)
            /\ last.endpoint = endpoint
            /\ last.raw = raw
         THEN [ present |-> TRUE, phase |-> last.phase, calls |-> last.calls,
                key_at_request |-> last.key_at_request,
                query_id |-> last.query_id, response |-> last.response ]
         ELSE NoFirstIssue
    /\ UNCHANGED <<tasks, variant, lib_available, key_at_start, env_key, env_oauth, agent,
                   next_uuid, returned, issued>>

(* final and v2: the endpoint function runs to its return without an     *)
(* await: the wrapper's rewriting, then legal_agent.process_legal_query,   *)
(* the provider answering with `out`                                       *)
Handle(endpoint, out) ==
    /\ variant # "sdk"
    /\ last.phase = "received"
    /\ last.endpoint = endpoint
    /\ LET req == LegalQueryRequest(last.raw).req
           fwd == Forwarded(endpoint, req)
           res == process_legal_query(fwd, out, uuid4)
       IN  /\ last' = [last EXCEPT
                         !.phase = res.kind,
                         !.fwd = fwd,
                         !.calls = res.calls,
                         !.raised = res.raised,
                         !.query_id = res.query_id,
                         !.status = res.status,
                         !.response = res.response,
                         !.detail = res.detail,
                         !.key_at_request = env_key]
           /\ agent' = [agent EXCEPT !.query_count = res.query_count]
           /\ returned' = IF res.kind = "envelope" THEN returned + 1 ELSE returned
           /\ issued' = IF res.kind = "envelope" THEN issued \cup {res.query_id} ELSE issued
    /\ next_uuid' = next_uuid + 1
    /\ UNCHANGED <<tasks, variant, lib_available, key_at_start, env_key, env_oauth,
                   handled, first_issue>>

(* the frames of generate_stream; message.content.replace(chr(10), ' ')    *)
RECURSIVE ReplaceNewlines(_)
ReplaceNewlines(s) ==
    IF s = <<>> THEN <<>>
    ELSE <<IF Head(s) = "\n" THEN " " ELSE Head(s)>> \o ReplaceNewlines(Tail(s))

ContentFrame(m) == [kind |-> "content", text |-> ReplaceNewlines(m.text)]
CompletedFrame  == [kind |-> "completed", text |-> EmptyStr]
ErrorFrame(e)   == [kind |-> "error", text |-> e]

(* sdk: the endpoint function runs up to its first await: the wrapper's   *)
(* rewriting, uuid4, the check of the SDK, `async with ClaudeSDKClient`    *)
SdkStart(endpoint) ==
    /\ variant = "sdk"
    /\ last.phase = "received"
    /\ last.endpoint = endpoint
    /\ LET req == LegalQueryRequest(last.raw).req
           fwd == Forwarded(endpoint, req)
           res == HTTPException(LibraryMissingDetail, 0, None)
       IN  last' = IF ~lib_available
                   THEN [last EXCEPT !.phase = res.kind, !.fwd = fwd, !.detail = res.detail,
                                     !.key_at_request = env_key]
                   ELSE [last EXCEPT !.phase = "aenter", !.fwd = fwd, !.query_id = uuid4,
                                     !.key_at_request = env_key]
    /\ next_uuid' = next_uuid + 1
    /\ UNCHANGED <<tasks, variant, lib_available, key_at_start, env_key, env_oauth, agent,
                   handled, returned, issued, first_issue>>

LegalQueryEndpoint ==
    IF variant = "sdk" THEN SdkStart("query")
    ELSE \E out \in Outcomes : Handle("query", out)
ContractReviewEndpoint ==
    IF variant = "sdk" THEN SdkStart("contract-review")
    ELSE \E out \in Outcomes : Handle("contract-review", out)
RiskAssessmentEndpoint ==
    IF variant = "sdk" THEN SdkStart("risk-assessment")
    ELSE \E out \in Outcomes : Handle("risk-assessment", out)

(* an awaited call of the SDK client raised: `except Exception as e`      *)
(* turns it into HTTP 500 (112-116), the stream's generator into the       *)
(* error frame (210-211)                                                   *)
Excepted ==
    IF last.endpoint = "stream"
    THEN [Resumed EXCEPT
            !.phase = "streamed",
            !.raised = Some(ProviderError),
            !.frames = Append(last.frames, ErrorFrame(ProviderError))]
    ELSE LET res == HTTPException(AnalysisFailedDetail(ProviderError), last.calls,
                                  Some(ProviderError))
         IN  [Resumed EXCEPT
                !.phase = res.kind,
                !.raised = res.raised,
                !.query_id = res.query_id,
                !.status = res.status,
                !.response = res.response,
                !.detail = res.detail]

(* __aenter__ returns and the handler (or the stream's generator) awaits   *)
(* client.query(full_prompt): the provider is invoked.  Or __aenter__      *)
(* raises: the block is not entered, __aexit__ is not awaited and the      *)
(* provider is never queried                                               *)
ClientEntered ==
    /\ last.phase = "aenter"
    /\ \E raised \in BOOLEAN :
          last' = IF raised THEN Excepted
                  ELSE [Resumed EXCEPT !.phase = "query", !.calls = 1]
    /\ UNCHANGED <<tasks, variant, lib_available, key_at_start, env_key, env_oauth, agent,
                   next_uuid, handled, returned, issued, first_issue>>

(* client.query returns and the first message of receive_response() is    *)
(* awaited; the provider will deliver `out`                                *)
ClientQueried(out) ==
    /\ last.phase = "query"
    /\ last' = [Resumed EXCEPT !.phase = "anext", !.script = out, !.turn_count = 0]
    /\ UNCHANGED <<tasks, variant, lib_available, key_at_start, env_key, env_oauth, agent,
                   next_uuid, handled, returned, issued, first_issue>>

(* client.query raises: the `async with` block is left with the exception  *)
(* and __aexit__ is awaited                                                *)
ClientQueryRaised ==
    /\ last.phase = "query"
    /\ last' = [Resumed EXCEPT !.phase = "aexit", !.raised = Some(ProviderError)]
    /\ UNCHANGED <<tasks, variant, lib_available, key_at_start, env_key, env_oauth, agent,
                   next_uuid, handled, returned, issued, first_issue>>

QueryAnswered ==
    \/ \E out \in (IF last.endpoint = "stream" THEN Outcomes ELSE SdkStreams) :
          ClientQueried(out)
    \/ ClientQueryRaised

(* the awaited message arrives, or the stream ends or raises: the loop    *)
(* body runs and the handler awaits the next message, or it leaves the     *)
(* loop and the `async with` block and awaits __aexit__                    *)
SdkRead ==
    /\ last.phase = "anext"
    /\ last.endpoint # "stream"
    /\ last' =
         IF last.read < Len(last.script.blocks)
         THEN LET r == LoopBody(last.script.blocks[last.read + 1], last.response,
                                last.turn_count,
                                OrInt(last.fwd.max_turns, SdkFallbackTurns))
              IN  [Resumed EXCEPT
                     !.read = last.read + 1,
                     !.turn_count = r.turn_count,
                     !.response = IF r.stop THEN AfterLoop(r.response_content)
                                            ELSE r.response_content,
                     !.phase = IF r.stop THEN "aexit" ELSE "anext"]
         ELSE IF last.script.failed
              THEN [Resumed EXCEPT !.phase = "aexit", !.raised = Some(ProviderError)]
              ELSE [Resumed EXCEPT !.phase = "aexit", !.response = AfterLoop(last.response)]
    /\ UNCHANGED <<tasks, variant, lib_available, key_at_start, env_key, env_oauth, agent,
                   next_uuid, handled, returned, issued, first_issue>>

(* __aexit__ returns: the handler counts the query and returns the        *)
(* envelope, or the exception that left the block reaches `except` and     *)
(* becomes HTTP 500; or __aexit__ itself raises, which `except` catches    *)
(* as well                                                                 *)
SdkExited ==
    /\ last.phase = "aexit"
    /\ last.endpoint # "stream"
    /\ \E raised \in BOOLEAN :
         LET res == IF IsNone(last.raised) /\ ~raised
                    THEN Envelope(last.query_id, Strip(last.response), 1, None)
                    ELSE HTTPException(AnalysisFailedDetail(ProviderError), 1,
                                       Some(ProviderError))
         IN  /\ last' = [Resumed EXCEPT
                           !.phase = res.kind,
                           !.raised = res.raised,
                           !.query_id = res.query_id,
                           !.status = res.status,
                           !.response = res.response,
                           !.detail = res.detail]
             /\ agent' = [agent EXCEPT !.query_count = res.query_count]
             /\ returned' = IF res.kind = "envelope" THEN returned + 1 ELSE returned
             /\ issued' = IF res.kind = "envelope" THEN issued \cup {res.query_id}
                                                   ELSE issued
    /\ UNCHANGED <<tasks, variant, lib_available, key_at_start, env_key, env_oauth,
                   next_uuid, handled, first_issue>>

(* the bodies sent to the query endpoints; the sdk file's wrappers treat   *)
(* the context as v2's do, and its bodies vary the context between absent  *)
(* and given                                                               *)
SdkBodies ==
    { raw \in RawBodies : raw.context \in {Missing(EmptyStr), Given(<<"SaaS">>)} }

PostRequest ==
    \E endpoint \in Endpoints, raw \in (IF variant = "sdk" THEN SdkBodies ELSE RawBodies) :
        Post(endpoint, raw)

(* the deployment's environment changes while the process runs (the SDK   *)
(* variant never reads ANTHROPIC_API_KEY)                                  *)
SetKey ==
    /\ variant # "sdk"
    /\ ~Busy
    /\ ~env_key
    /\ env_key' = TRUE
    /\ UNCHANGED <<tasks, variant, lib_available, key_at_start, env_oauth, agent, next_uuid,
                   handled, returned, issued, last, first_issue>>

UnsetKey ==
    /\ variant # "sdk"
    /\ ~Busy
    /\ env_key
    /\ env_key' = FALSE
    /\ UNCHANGED <<tasks, variant, lib_available, key_at_start, env_oauth, agent, next_uuid,
                   handled, returned, issued, last, first_issue>>

(* --------------------------- GET /health, GET / ------------------------ *)
(* "queries_processed": legal_agent.query_count *)
HealthQueriesReceived == handled
HealthQueriesProcessed == agent.query_count

(* the credential indicator of the health body: "claude_configured"      *)
(* (final), "authentication" (v2), "oauth_mode" (sdk)                      *)
HealthConfigured ==
    CASE variant = "final" -> JsonBool(Available)
      [] variant = "v2"    -> JsonStr(IF env_key THEN <<"configured">> ELSE <<"missing">>)
      [] variant = "sdk"   -> JsonBool(env_oauth)

(* GET /health and GET / are answered when no request is being handled,   *)
(* and also while the sdk's handler is suspended at an await               *)
health_check ==
    /\ last.phase # "received"
    /\ last' = IF Awaiting
               THEN [last EXCEPT
                       !.probe = "health",
                       !.queries_processed = HealthQueriesProcessed,
                       !.configured = HealthConfigured]
               ELSE [NoExchange EXCEPT
                       !.phase = "health",
                       !.probe = "health",
                       !.key_at_request = env_key,
                       !.count_before = agent.query_count,
                       !.queries_processed = HealthQueriesProcessed,
                       !.configured = HealthConfigured]
    /\ first_issue' = IF Awaiting THEN first_issue ELSE NoFirstIssue
    /\ UNCHANGED <<tasks, variant, lib_available, key_at_start, env_key, env_oauth, agent,
                   next_uuid, handled, returned, issued>>

root ==
    /\ last.phase # "received"
    /\ last' = IF Awaiting
               THEN [Resumed EXCEPT !.probe = "root"]
               ELSE [NoExchange EXCEPT
                       !.phase = "root",
                       !.probe = "root",
                       !.key_at_request = env_key,
                       !.count_before = agent.query_count]
    /\ first_issue' = IF Awaiting THEN first_issue ELSE NoFirstIssue
    /\ UNCHANGED <<tasks, variant, lib_available, key_at_start, env_key, env_oauth, agent,
                   next_uuid, handled, returned, issued>>

(* --------------------------- POST /legal/stream ------------------------ *)
SdkNotAvailable == <<"Claude SDK not available">>

(* what generate_stream yields when the provider's stream is exhausted:    *)
(* the error marker of the except clause, or the completion marker         *)
EndOfStreamBoth(failed) ==
    IF failed THEN <<ErrorFrame(ProviderError), CompletedFrame>> ELSE <<CompletedFrame>>
EndOfStream(failed) ==
    IF failed THEN <<ErrorFrame(ProviderError)>> ELSE <<CompletedFrame>>

(* generate_stream reads query and context only to build the prompt and   *)
(* never reads max_turns, so the bodies sent to /legal/stream vary the     *)
(* query, and max_turns between absent, 1 and 3                            *)
StreamBodies ==
    { raw \in RawBodies :
        /\ raw.context.tag = "missing"
        /\ raw.max_turns \in {Missing(0), Given(1), Given(3)} }

PostStream == variant = "sdk" /\ \E raw \in StreamBodies : Post("stream", raw)

(* stream_legal_analysis returns the StreamingResponse and the generator   *)
(* starts: without the SDK it yields the error marker and returns, else it *)
(* runs up to `async with ClaudeSDKClient` and awaits __aenter__           *)
stream_legal_analysis ==
    /\ last.phase = "received"
    /\ last.endpoint = "stream"
    /\ last' = IF ~lib_available
               THEN [last EXCEPT !.phase = "streamed",
                                 !.frames = <<ErrorFrame(SdkNotAvailable)>>]
               ELSE [last EXCEPT !.phase = "aenter"]
    /\ UNCHANGED <<tasks, variant, lib_available, key_at_start, env_key, env_oauth, agent,
                   next_uuid, handled, returned, issued, first_issue>>

StreamReadWithTurnLimit ==
    /\ last.phase = "anext"
    /\ last.endpoint = "stream"
    /\ last' =
         IF /\ last.read < Len(last.script.blocks)
            /\ Len(last.frames) < OrInt(LegalQueryRequest(last.raw).req.max_turns,
                                        SdkFallbackTurns)
         THEN LET m == last.script.blocks[last.read + 1] IN
              [Resumed EXCEPT !.read = last.read + 1,
                              !.frames = IF IsContentBearing(m)
                                         THEN Append(last.frames, ContentFrame(m))
                                         ELSE last.frames]
         ELSE [Resumed EXCEPT
                 !.phase = "aexit",
                 !.raised = IF last.script.failed THEN Some(ProviderError) ELSE None]
    /\ UNCHANGED <<tasks, variant, lib_available, key_at_start, env_key, env_oauth, agent,
                   next_uuid, handled, returned, issued, first_issue>>

(* one turn of `async for message in client.receive_response()`: the       *)
(* awaited message arrives and, when it bears content, is framed and       *)
(* yielded; when the stream ends or raises the generator leaves the        *)
(* `async with` block and awaits __aexit__                                 *)
StreamRead ==
    /\ last.phase = "anext"
    /\ last.endpoint = "stream"
    /\ last' =
         IF last.read < Len(last.script.blocks)
         THEN LET m == last.script.blocks[last.read + 1] IN
              [Resumed EXCEPT !.read = last.read + 1,
                              !.frames = IF IsContentBearing(m)
                                         THEN Append(last.frames, ContentFrame(m))
                                         ELSE last.frames]
         ELSE [Resumed EXCEPT
                 !.phase = "aexit",
                 !.raised = IF last.script.failed THEN Some(ProviderError) ELSE None]
    /\ UNCHANGED <<tasks, variant, lib_available, key_at_start, env_key, env_oauth, agent,
                   next_uuid, handled, returned, issued, first_issue>>

(* __aexit__ returns, or raises: the generator yields the terminal frame   *)
(* and ends                                                                *)
StreamExited ==
    /\ last.phase = "aexit"
    /\ last.endpoint = "stream"
    /\ \E raised \in BOOLEAN :
          LET failed == ~IsNone(last.raised) \/ raised IN
          last' = [Resumed EXCEPT
                     !.phase = "streamed",
                     !.raised = IF failed THEN Some(ProviderError) ELSE None,
                     !.frames = last.frames \o EndOfStream(failed)]
    /\ UNCHANGED <<tasks, variant, lib_available, key_at_start, env_key, env_oauth, agent,
                   next_uuid, handled, returned, issued, first_issue>>

Next ==
    \/ PostRequest
    \/ LegalQueryEndpoint
    \/ ContractReviewEndpoint
    \/ RiskAssessmentEndpoint
    \/ ClientEntered
    \/ QueryAnswered
    \/ SdkRead
    \/ SdkExited
    \/ PostStream
    \/ stream_legal_analysis
    \/ StreamRead
    \/ StreamExited
    \/ health_check
    \/ root
    \/ SetKey
    \/ UnsetKey

Spec == Init /\ [][Next]_vars

(* ============================== claims ================================= *)
(* the last request reached the endpoint function and was answered by it *)
ByHandler == last.phase \in {"envelope", "http500"}
IsEnvelope == last.phase = "envelope"
SubmittedQuery == last.raw.query.val
ProviderRaised == ~IsNone(last.raised)

(* C1, as stated: every request handled while ANTHROPIC_API_KEY is unset,  *)
(* in every variant (the provider library being installed), invokes the    *)
(* provider zero times and returns a response text that contains the       *)
(* submitted query text.                                                   *)
C1_AsStated ==
    (ByHandler /\ lib_available /\ ~last.key_at_request) =>
        /\ last.calls = 0
        /\ IsEnvelope
        /\ Contains(last.response, SubmittedQuery)

(* C1, amended: a request handled while ANTHROPIC_API_KEY is unset, by a   *)
(* process that was started without it, invokes the provider zero times in *)
(* the final and v2 variants; the final variant returns an envelope whose  *)
(* response text contains the submitted query text, v2 returns no envelope *)
(* but HTTP 500, with the detail "Authentication not configured..." or,    *)
(* where the anthropic library is missing, "Anthropic API not             *)
(* available...".  The SDK variant never reads the key: where the SDK      *)
(* package is installed it opens the SDK client and queries the provider   *)
(* once, unless opening the client raised; without the package it does     *)
(* neither.                                                                *)
C1_Unconfigured ==
    /\ (ByHandler /\ ~last.key_at_request /\ ~key_at_start /\ variant \in {"final", "v2"}) =>
          /\ last.calls = 0
          /\ variant = "final" =>
                /\ IsEnvelope
                /\ Contains(last.response, SubmittedQuery)
                /\ Contains(last.response, last.fwd.query)
          /\ variant = "v2" =>
                /\ last.phase = "http500"
                /\ last.response = EmptyStr
                /\ last.detail = IF lib_available THEN AuthMissingDetail
                                                 ELSE LibraryMissingDetail
    /\ (ByHandler /\ variant = "sdk") =>
          /\ ~lib_available => (last.calls = 0 /\ ~ProviderRaised)
          /\ lib_available => (last.calls = 1 \/ (last.calls = 0 /\ ProviderRaised))

C1_Witness ==
    /\ variant = "final"
    /\ IsEnvelope
    /\ ~last.key_at_request /\ ~key_at_start
    /\ SubmittedQuery = <<"force", "majeure">>
    /\ last.calls = 0

(* C2, as stated: whenever the provider call raises, in every variant, the *)
(* handler returns an envelope whose response text contains the exception  *)
(* message and the submitted query text.                                   *)
C2_AsStated ==
    (ByHandler /\ ProviderRaised) =>
        /\ IsEnvelope
        /\ Contains(last.response, Val(last.raised))
        /\ Contains(last.response, SubmittedQuery)

(* C2, amended: whenever the provider call raises, the final variant       *)
(* returns an envelope whose response text contains the exception message  *)
(* and the submitted query text; v2 and the SDK variant raise an HTTP 500  *)
(* whose detail contains the exception message, and return no envelope.    *)
C2_ProviderRaises ==
    (ByHandler /\ ProviderRaised) =>
        /\ variant = "final" =>
              /\ IsEnvelope
              /\ Contains(last.response, Val(last.raised))
              /\ Contains(last.response, SubmittedQuery)
        /\ variant \in {"v2", "sdk"} =>
              /\ last.phase = "http500"
              /\ Contains(last.detail, Val(last.raised))
              /\ last.response = EmptyStr

C2_Witness ==
    /\ variant = "final"
    /\ IsEnvelope
    /\ ProviderRaised
    /\ Val(last.raised) # EmptyStr
    /\ SubmittedQuery = <<"force", "majeure">>

(* C3: contract_review forwards a turn limit of 3 when the caller's body   *)
(* omits max_turns and of 1 when the caller gives 1; risk_assessment       *)
(* forwards 2 when the caller gives none.                                  *)
C3_TurnLimitDefault ==
    ByHandler =>
        /\ (last.endpoint = "contract-review" /\ last.raw.max_turns.tag = "missing")
              => last.fwd.max_turns = Some(3)
        /\ (last.endpoint = "contract-review" /\ last.raw.max_turns = Given(1))
              => last.fwd.max_turns = Some(1)
        /\ (last.endpoint = "risk-assessment" /\ last.raw.max_turns.tag # "val")
              => last.fwd.max_turns = Some(2)

(* C4, as stated: availability of the credential is resolved per request:  *)
(* a request made with the key set, by a process started without it,       *)
(* invokes the provider; a request made after the key was removed does not.*)
C4_AsStated ==
    (ByHandler /\ lib_available) =>
        /\ (~key_at_start /\ last.key_at_request) => last.calls > 0
        /\ (key_at_start /\ ~last.key_at_request) => last.calls = 0

(* C4, amended: in the final and v2 variants the provider client is built  *)
(* once, at process start, and later changes of ANTHROPIC_API_KEY do not   *)
(* change whether the provider is invoked: a request invokes the provider  *)
(* exactly when the key (and the library) was there at start.  A request   *)
(* made with a key that was set after start is answered without the        *)
(* provider: by the setup-required envelope in final (with or without the  *)
(* library), by the being-configured envelope in v2 where the anthropic    *)
(* library is installed, and by HTTP 500 "Anthropic API not available..."  *)
(* and no envelope in v2 where it is not.  A key removed after start still *)
(* has the provider invoked.                                               *)
C4_ResolvedAtStart ==
    (ByHandler /\ variant \in {"final", "v2"}) =>
        /\ last.calls > 0 <=> (key_at_start /\ lib_available)
        /\ (~key_at_start /\ last.key_at_request) =>
              /\ variant = "final" =>
                    /\ IsEnvelope
                    /\ StartsWith(last.response, <<"Claude Legal Agent Setup Required">>)
              /\ (variant = "v2" /\ lib_available) =>
                    /\ IsEnvelope
                    /\ last.response = BeingConfigured
              /\ (variant = "v2" /\ ~lib_available) =>
                    /\ last.phase = "http500"
                    /\ last.detail = LibraryMissingDetail
                    /\ last.response = EmptyStr

C4_Witness ==
    /\ variant = "final"
    /\ lib_available
    /\ ~key_at_start /\ last.key_at_request
    /\ IsEnvelope

(* C5: every envelope carries a non-empty response text, whatever the      *)
(* provider returned.                                                      *)
C5_ResponseNonEmpty ==
    IsEnvelope => last.response # EmptyStr

(* C6: a request whose query is missing or the empty string is rejected by *)
(* validation: it never reaches the endpoint function, no provider call is *)
(* made and the query counter is unchanged.                                *)
IsPost == last.endpoint \in {"query", "contract-review", "risk-assessment", "stream"}

C6_EmptyQueryRejected ==
    (last.phase # "none" /\ IsPost
        /\ (last.raw.query.tag # "val" \/ last.raw.query.val = EmptyStr)) =>
        /\ last.phase = "rejected"
        /\ last.calls = 0
        /\ agent.query_count = last.count_before

(* C7: contract_review and risk_assessment hand process_legal_query a      *)
(* query text that starts with "CONTRACT REVIEW" / "LEGAL RISK ASSESSMENT" *)
(* and ends with the caller's query text; the answer is what the general   *)
(* path gives for that text (the canned setup text quotes it in full).     *)
C7_LabelPrefixed ==
    ByHandler =>
        /\ last.endpoint = "contract-review" =>
              /\ StartsWith(last.fwd.query, <<"CONTRACT REVIEW">>)
              /\ EndsWith(last.fwd.query, SubmittedQuery)
        /\ last.endpoint = "risk-assessment" =>
              /\ StartsWith(last.fwd.query, <<"LEGAL RISK ASSESSMENT">>)
              /\ EndsWith(last.fwd.query, SubmittedQuery)
        /\ last.endpoint = "query" => last.fwd.query = SubmittedQuery
        /\ (variant = "final" /\ last.calls = 0) =>
              Contains(last.response, <<"**Your Query:** ">> \o last.fwd.query)

C7_Witness ==
    /\ IsEnvelope
    /\ last.endpoint = "contract-review"
    /\ SubmittedQuery = <<"force", "majeure">>

(* C8, as stated: when the caller supplies a context, the context handed   *)
(* to process_legal_query by a wrapper is the caller's context.            *)
CallerContext == last.raw.context
CallerGaveContext == CallerContext.tag = "val" /\ CallerContext.val # EmptyStr
IsWrapper == last.endpoint \in {"contract-review", "risk-assessment"}

C8_AsStated ==
    (ByHandler /\ IsWrapper /\ CallerGaveContext) =>
        last.fwd.context = Some(CallerContext.val)

(* C8, amended: the context a wrapper hands to process_legal_query is the  *)
(* endpoint's fixed prefix ("Contract Analysis Context: " / "Risk Analysis *)
(* Context: ") followed by the caller's context when the caller gave a     *)
(* non-empty one, and followed by the endpoint's fixed default text when   *)
(* the caller gave none (omitted, null or empty).                          *)
C8_ContextDefault ==
    (ByHandler /\ IsWrapper) =>
        LET prefix == IF last.endpoint = "contract-review"
                      THEN <<"Contract Analysis Context: ">>
                      ELSE <<"Risk Analysis Context: ">>
            fixed  == IF last.endpoint = "contract-review"
                      THEN <<"General contract review">>
                      ELSE IF variant = "final"
                      THEN <<"Comprehensive legal risk evaluation">>
                      ELSE <<"General risk assessment">>
            ctx    == Val(last.fwd.context)
            rest   == SubSeq(ctx, Len(prefix) + 1, Len(ctx))
        IN  /\ ~IsNone(last.fwd.context)
            /\ StartsWith(ctx, prefix)
            /\ IF CallerGaveContext
               THEN rest = CallerContext.val
               ELSE StartsWith(rest, fixed)

C8_Witness ==
    /\ IsEnvelope
    /\ last.endpoint = "contract-review"
    /\ CallerGaveContext

(* the same request was issued twice in a row, both were answered by the   *)
(* endpoint function, and ANTHROPIC_API_KEY was unset at both              *)
IssuedTwice == first_issue.present /\ ByHandler
TwiceWithoutKey == IssuedTwice /\ ~first_issue.key_at_request /\ ~last.key_at_request
BothCanned ==
    /\ first_issue.phase = "envelope" /\ first_issue.calls = 0
    /\ IsEnvelope /\ last.calls = 0
SameTextNewId ==
    /\ last.query_id # first_issue.query_id
    /\ last.response = first_issue.response
    /\ returned = 2

(* C10, as stated: every envelope has status "completed", and a request    *)
(* that fails (the provider is not configured, or the provider call        *)
(* raises) is answered by a transport-level error, never by an envelope.   *)
RequestFailed == ProviderRaised \/ last.calls = 0

C10_AsStated ==
    /\ IsEnvelope => last.status = "completed"
    /\ (ByHandler /\ RequestFailed) => last.phase = "http500"

(* C10, amended: every envelope has status "completed".  In v2 and the SDK *)
(* variant a provider error and a missing library end in HTTP 500 with no  *)
(* envelope, as does, in v2, a key missing both at start and at request    *)
(* time; the final variant answers every request with an envelope, its     *)
(* configuration and provider errors included, and v2 answers with an      *)
(* envelope when the key was set only after start.                         *)
C10_StatusCompleted ==
    /\ IsEnvelope => last.status = "completed"
    /\ (ByHandler /\ variant = "final") => IsEnvelope
    /\ (ByHandler /\ variant \in {"v2", "sdk"} /\ (ProviderRaised \/ ~lib_available))
          => last.phase = "http500"
    /\ (ByHandler /\ variant = "v2" /\ ~key_at_start /\ lib_available)
          => (IsEnvelope <=> last.key_at_request)

C10_Witness ==
    /\ variant = "final"
    /\ IsEnvelope
    /\ ProviderRaised
    /\ last.status = "completed"

(* C11: no retries: every request, to a query endpoint or to the streaming *)
(* endpoint, invokes the provider at most once, whether the invocation     *)
(* succeeds or raises; where the SDK client fails to open, the provider is *)
(* not queried at all and nothing is read from it.                         *)
IsStream == last.endpoint = "stream" /\ (Awaiting \/ last.phase = "streamed")

C11_NoRetry ==
    /\ last.calls <= 1
    /\ last.phase \in {"query", "anext", "aexit"} => last.calls = 1
    /\ (ByHandler /\ ProviderRaised /\ variant # "sdk") => last.calls = 1
    /\ ((ByHandler \/ IsStream) /\ ProviderRaised /\ variant = "sdk") =>
          \/ last.calls = 1
          \/ last.calls = 0 /\ last.script = NoScript /\ last.read = 0

C11_Witness ==
    /\ variant = "final"
    /\ IsEnvelope
    /\ ProviderRaised
    /\ last.calls = 1

(* C12 as stated: /health on a fresh process with no credential           *)
(* configured reports queries_processed = 0 and a falsy configured         *)
(* indicator.                                                              *)
FreshUnconfigured ==
    /\ last.phase = "health"
    /\ handled = 0
    /\ ~key_at_start /\ ~last.key_at_request /\ ~env_oauth

C12_AsStated ==
    FreshUnconfigured => (last.queries_processed = 0 /\ ~Truthy(last.configured))

(* C12: /health reports the current value of the query counter and leaves  *)
(* it unchanged; on a fresh process with no credential configured it       *)
(* reports queries_processed = 0 and a negative configured indicator:      *)
(* false in final and sdk, the non-empty string "missing" in v2.           *)
C12_HealthReadout ==
    last.probe = "health" =>
        /\ last.queries_processed = agent.query_count
        /\ agent.query_count = last.count_before
        /\ FreshUnconfigured =>
              /\ last.queries_processed = 0
              /\ last.configured = IF variant = "v2" THEN JsonStr(<<"missing">>)
                                                     ELSE JsonBool(FALSE)

C12_Witness ==
    /\ FreshUnconfigured
    /\ variant = "v2"
    /\ last.queries_processed = 0
    /\ last.configured.str = <<"missing">>

(* C13: the streaming endpoint emits content frames, one per content       *)
(* bearing message read and in arrival order, and then exactly one         *)
(* terminal frame: the completion marker when the provider's stream ended  *)
(* without failure, the error marker when the SDK is unavailable or the    *)
(* provider call failed, before or after content frames.                   *)
RECURSIVE ExpectedFrames(_)
ExpectedFrames(blocks) ==
    IF blocks = <<>> THEN <<>>
    ELSE LET m == Head(blocks)
             t == [i \in 1..Len(m.text) |-> IF m.text[i] = "\n" THEN " " ELSE m.text[i]]
         IN  (IF m.has_text /\ m.text # <<>>
              THEN << [kind |-> "content", text |-> t] >> ELSE <<>>)
             \o ExpectedFrames(Tail(blocks))

C13_StreamFraming ==
    /\ (IsStream /\ Awaiting) =>
          last.frames = ExpectedFrames(SubSeq(last.script.blocks, 1, last.read))
    /\ (IsStream /\ last.phase = "streamed") =>
          LET n == Len(last.frames) IN
          /\ n >= 1
          /\ \A i \in 1..(n - 1) : last.frames[i].kind = "content"
          /\ last.frames[n].kind \in {"completed", "error"}
          /\ last.frames[n].kind = "completed" <=> (lib_available /\ ~ProviderRaised)
          /\ last.script.failed => ProviderRaised
          /\ lib_available => last.read = Len(last.script.blocks)

C13_Witness ==
    /\ IsStream
    /\ last.phase = "streamed"
    /\ Len(last.frames) = 3
    /\ last.frames[3].kind = "error"

(* C15: the query counter equals the number of envelopes returned: every   *)
(* envelope increments it by exactly one; a request that ends in HTTP 500, *)
(* a validation rejection, /health, / and /legal/stream leave it unchanged.*)
C15_CounterCountsEnvelopes ==
    /\ agent.query_count = returned
    /\ IsEnvelope => agent.query_count = last.count_before + 1
    /\ (Awaiting \/ last.phase \in {"received", "rejected", "http500", "health",
                                      "root", "streamed"})
          => agent.query_count = last.count_before

C15_Witness ==
    /\ variant = "v2"
    /\ last.phase = "http500"
    /\ handled = 2
    /\ returned = 1

(* C17: the streaming endpoint does not apply the turn limit: when the     *)
(* provider's stream does not fail, the stream carries one content frame   *)
(* for every content bearing message of the provider, in arrival order,    *)
(* whatever max_turns the request gave.                                    *)
ContentBearing(blocks) == { i \in 1..Len(blocks) : blocks[i].has_text /\ blocks[i].text # <<>> }

C17_StreamIgnoresTurnLimit ==
    (IsStream /\ last.phase = "streamed" /\ lib_available /\ ~ProviderRaised) =>
        /\ Len(last.frames) = Cardinality(ContentBearing(last.script.blocks)) + 1
        /\ SubSeq(last.frames, 1, Len(last.frames) - 1) = ExpectedFrames(last.script.blocks)

C17_Witness ==
    /\ IsStream
    /\ last.phase = "streamed"
    /\ last.raw.max_turns = Given(1)
    /\ Len(last.frames) = 3
    /\ last.frames[1].kind = "content" /\ last.frames[2].kind = "content"
    /\ last.frames[1].text = <<" ">>
    /\ last.frames[3].kind = "completed"

(* ------------- the SDK variant's turn limit, on its own ---------------- *)
(* the messages client.receive_response() can deliver: without content,    *)
(* with empty content, with a vertical tab or a tab only, with text        *)
TurnMessageKinds ==
    { NoText, Text(EmptyStr), Text(<<VerticalTab>>), Text(<<"\t">>),
      Text(<<"analysis">>), Text(<<"advice">>) }

TurnStreams == [blocks : SeqsUpTo(TurnMessageKinds, MaxStreamLen), failed : BOOLEAN]

TurnLimits == {Missing(0), Null(0), Given(1), Given(2), Given(3)}

TurnBodies ==
    { [query |-> Given(<<"force", "majeure">>), context |-> Missing(EmptyStr), max_turns |-> mt] :
        mt \in TurnLimits }

(* a request to /legal/query of the SDK variant has been validated *)
InitTurns ==
    /\ variant = "sdk"
    /\ lib_available = TRUE
    /\ key_at_start = FALSE
    /\ \E contextual \in BOOLEAN :
          CanStart(variant, lib_available, key_at_start, contextual)
    /\ env_key = FALSE
    /\ env_oauth \in BOOLEAN
    /\ agent = LegalAgentInit(FALSE)
    /\ next_uuid = 1
    /\ handled = 1
    /\ returned = 0
    /\ issued = {}
    /\ \E raw \in TurnBodies :
          last = [NoExchange EXCEPT !.phase = "received", !.endpoint = "query", !.raw = raw]
    /\ first_issue = NoFirstIssue
    /\ tasks = [t \in Tasks |-> IdleTask]

(* client.query returns; the provider will deliver one of TurnStreams *)
TurnQueryAnswered ==
    \/ \E out \in TurnStreams : ClientQueried(out)
    \/ ClientQueryRaised

NextTurns ==
    \/ LegalQueryEndpoint
    \/ ClientEntered
    \/ TurnQueryAnswered
    \/ SdkRead
    \/ SdkExited

SpecTurns == InitTurns /\ [][NextTurns]_vars

(* the limit the request asks for, and what the claim says of a stream *)
TurnLimitOf(raw) ==
    IF raw.max_turns.tag = "val" /\ raw.max_turns.val # 0 THEN raw.max_turns.val ELSE 2

RECURSIVE FirstContent(_, _)
FirstContent(blocks, k) ==
    IF blocks = <<>> \/ k = 0 THEN <<>>
    ELSE IF Head(blocks).has_text /\ Head(blocks).text # <<>>
         THEN Head(blocks).text \o FirstContent(Tail(blocks), k - 1)
         ELSE FirstContent(Tail(blocks), k)

RECURSIVE ReadUntil(_, _)
ReadUntil(blocks, k) ==
    IF blocks = <<>> \/ k = 0 THEN 0
    ELSE IF Head(blocks).has_text /\ Head(blocks).text # <<>>
         THEN 1 + ReadUntil(Tail(blocks), k - 1)
         ELSE 1 + ReadUntil(Tail(blocks), k)

(* C14 as stated: the response text is the plain concatenation of the      *)
(* first min(max_turns, number of content bearing increments) content      *)
(* bearing increments.                                                     *)
C14_AsStated ==
    last.phase = "envelope" =>
        last.response = FirstContent(last.script.blocks, TurnLimitOf(last.raw))

(* C14: in the SDK variant's process_legal_query the increments are        *)
(* concatenated in arrival order until the stream ends or max_turns        *)
(* content bearing increments have been consumed, and no further increment *)
(* is read; increments without content do not count. The response is that  *)
(* concatenation with leading and trailing whitespace stripped, or the     *)
(* fixed default text when the concatenation is empty or whitespace only.  *)
(* That is the answer when no call of the SDK client raises; when one does *)
(* (opening the client, the query, a read before the limit is reached, or  *)
(* closing the client) the answer is HTTP 500 and no response text.        *)
C14_TurnLimit ==
    LET k      == TurnLimitOf(last.raw)
        blocks == last.script.blocks
        text   == FirstContent(blocks, k)
        ended  == Cardinality(ContentBearing(blocks)) < k
    IN  /\ last.phase = "anext" =>
              /\ Cardinality(ContentBearing(SubSeq(blocks, 1, last.read))) < k
              /\ last.response = FirstContent(SubSeq(blocks, 1, last.read), k)
        /\ last.phase \in {"aexit", "envelope", "http500"} =>
              last.read = ReadUntil(blocks, k)
        /\ last.phase = "envelope" =>
              /\ last.response = IF Strip(text) = <<>> THEN SdkDefaultResponse
                                                       ELSE Strip(text)
              /\ ~(ended /\ last.script.failed)
              /\ ~ProviderRaised
        /\ last.phase = "http500" =>
              /\ ProviderRaised
              /\ last.response = EmptyStr
              /\ Contains(last.detail, Val(last.raised))

C14_Witness ==
    /\ last.phase = "envelope"
    /\ last.raw.max_turns = Given(2)
    /\ last.script.blocks = <<NoText, Text(<<"analysis">>), Text(<<"advice">>)>>
    /\ last.response = <<"analysis", "advice">>
    /\ last.read = 3

(* ------------- concurrent handlers on the one event loop --------------- *)
TaskBodies ==
    { [query |-> Given(<<"force", "majeure">>), context |-> Missing(EmptyStr),
       max_turns |-> mt] : mt \in {Missing(0), Given(1)} }

(* provider streams of the SDK variant: one message, a message without     *)
(* content before it, a failure after the first message, a failure at once *)
TaskScripts ==
    { [blocks |-> <<Text(<<"analysis">>)>>, failed |-> FALSE],
      [blocks |-> <<NoText, Text(<<"analysis">>)>>, failed |-> FALSE],
      [blocks |-> <<Text(<<"analysis">>)>>, failed |-> TRUE],
      [blocks |-> <<>>, failed |-> TRUE] }

Suspended(u) == tasks[u].pc \notin {"idle", "done"}

(* task t moves on; every other task that is suspended at an await has    *)
(* now seen another task run in between                                    *)
Step(t, new) ==
    tasks' = [u \in Tasks |->
                IF u = t THEN new
                ELSE IF Suspended(u) THEN [tasks[u] EXCEPT !.overlapped = TRUE]
                ELSE tasks[u]]

Returned(t, kind) ==
    [IdleTask EXCEPT !.pc = "done", !.result = kind, !.overlapped = tasks[t].overlapped]

(* self.query_count += 1: read, add and write with no await in between *)
IncrementCountStale(t) == tasks[t].count_at_start + 1
IncrementCount(t) == agent.query_count + 1

(* final and v2: process_legal_query has no await, the provider call      *)
(* blocks the loop, and the handler runs from its start to its return      *)
RunToReturn(t) ==
    /\ variant # "sdk"
    /\ tasks[t].pc = "idle"
    /\ \E raw \in TaskBodies, out \in Outcomes :
         LET res == process_legal_query(LegalQueryRequest(raw).req, out, uuid4) IN
         /\ Step(t, Returned(t, res.kind))
         /\ agent' = [agent EXCEPT !.query_count = res.query_count]
    /\ next_uuid' = next_uuid + 1
    /\ UNCHANGED <<variant, lib_available, key_at_start, env_key, env_oauth,
                   handled, returned, issued, last, first_issue>>

(* sdk: the handler runs up to `async with ClaudeSDKClient(...)`, where it *)
(* awaits __aenter__; without the SDK it raises before any await           *)
TaskStart(t) ==
    /\ variant = "sdk"
    /\ tasks[t].pc = "idle"
    /\ \E raw \in TaskBodies, s \in TaskScripts :
         Step(t, IF ~lib_available
                 THEN Returned(t, "http500")
                 ELSE [tasks[t] EXCEPT
                         !.pc = "aenter",
                         !.request_max_turns = LegalQueryRequest(raw).req.max_turns,
                         !.script = s,
                         !.count_at_start = agent.query_count])
    /\ next_uuid' = next_uuid + 1
    /\ UNCHANGED <<variant, lib_available, key_at_start, env_key, env_oauth, agent,
                   handled, returned, issued, last, first_issue>>

(* __aenter__ returns and the handler awaits client.query(full_prompt),   *)
(* or __aenter__ raises and the handler returns HTTP 500                   *)
TaskEntered(t) ==
    /\ tasks[t].pc = "aenter"
    /\ \E raised \in BOOLEAN :
          Step(t, IF raised THEN Returned(t, "http500")
                  ELSE [tasks[t] EXCEPT !.pc = "query"])
    /\ UNCHANGED <<variant, lib_available, key_at_start, env_key, env_oauth, agent,
                   next_uuid, handled, returned, issued, last, first_issue>>

(* client.query returns; turn_count = 0, max_turns = request.max_turns or *)
(* 2, and the handler awaits the first message; or client.query raises     *)
(* and the handler, leaving the block, awaits __aexit__                    *)
TaskQueried(t) ==
    /\ tasks[t].pc = "query"
    /\ \E raised \in BOOLEAN :
          Step(t, IF raised
                  THEN [tasks[t] EXCEPT !.pc = "aexit", !.script = NoScript,
                                        !.raised = TRUE]
                  ELSE [tasks[t] EXCEPT
                          !.pc = "anext",
                          !.turn_count = 0,
                          !.max_turns = OrInt(tasks[t].request_max_turns,
                                              SdkFallbackTurns)])
    /\ UNCHANGED <<variant, lib_available, key_at_start, env_key, env_oauth, agent,
                   next_uuid, handled, returned, issued, last, first_issue>>

(* the awaited message arrives, or the stream ends or fails: the loop body *)
(* runs, and the handler awaits the next message or, leaving the           *)
(* `async with` block, __aexit__                                           *)
TaskRead(t) ==
    /\ tasks[t].pc = "anext"
    /\ LET k == tasks[t] IN
       IF k.read < Len(k.script.blocks)
       THEN LET m == k.script.blocks[k.read + 1] IN
            IF IsContentBearing(m)
            THEN IF k.turn_count + 1 >= k.max_turns
                 THEN Step(t, [k EXCEPT !.pc = "aexit", !.script = NoScript, !.read = 0,
                                        !.turn_count = 0, !.raised = FALSE])
                 ELSE Step(t, [k EXCEPT !.read = k.read + 1,
                                        !.turn_count = k.turn_count + 1])
            ELSE Step(t, [k EXCEPT !.read = k.read + 1])
       ELSE Step(t, [k EXCEPT !.pc = "aexit", !.script = NoScript, !.read = 0,
                              !.turn_count = 0, !.raised = k.script.failed])
    /\ UNCHANGED <<variant, lib_available, key_at_start, env_key, env_oauth, agent,
                   next_uuid, handled, returned, issued, last, first_issue>>

(* __aexit__ returns; the handler counts the query and returns the        *)
(* envelope, or the exception reaches `except` and becomes HTTP 500        *)
TaskExited(t) ==
    /\ tasks[t].pc = "aexit"
    /\ \E raised \in BOOLEAN :
          LET failed == tasks[t].raised \/ raised IN
          /\ Step(t, Returned(t, IF failed THEN "http500" ELSE "envelope"))
          /\ agent' = IF failed THEN agent
                      ELSE [agent EXCEPT !.query_count = IncrementCount(t)]
    /\ UNCHANGED <<variant, lib_available, key_at_start, env_key, env_oauth,
                   next_uuid, handled, returned, issued, last, first_issue>>

Run     == \E t \in Tasks : RunToReturn(t)
Start   == \E t \in Tasks : TaskStart(t)
Entered == \E t \in Tasks : TaskEntered(t)
Queried == \E t \in Tasks : TaskQueried(t)
Read    == \E t \in Tasks : TaskRead(t)
Exited  == \E t \in Tasks : TaskExited(t)

NextConc == Run \/ Start \/ Entered \/ Queried \/ Read \/ Exited

SpecConc == Init /\ [][NextConc]_vars

(* C16: under any interleaving of concurrently handled requests, which     *)
(* switch only at the awaits of the SDK variant (client entry and exit,    *)
(* the query, each read of the response), no increment is lost: the        *)
(* counter equals the number of requests that have returned an envelope.   *)
(* In final and v2 no handler is ever suspended, so none interleaves.      *)
EnvelopesReturned ==
    { t \in Tasks : tasks[t].pc = "done" /\ tasks[t].result = "envelope" }

C16_NoLostIncrement ==
    /\ agent.query_count = Cardinality(EnvelopesReturned)
    /\ variant # "sdk" => \A t \in Tasks : ~Suspended(t) /\ ~tasks[t].overlapped

C16_Witness ==
    /\ variant = "sdk"
    /\ EnvelopesReturned = Tasks
    /\ \A t \in Tasks : tasks[t].overlapped
    /\ agent.query_count = MaxTasks

====
